---- MODULE Spec2Model ----
(***************************************************************************)
(* Regulatory compliance pipeline: the Orchestrator                        *)
(* (src/orchestrator/orchestrator.py) driving one regulator run after      *)
(* another against the persistence store, and the scheduling layer         *)
(* (src/apis/pipeline_api.py) that starts pipelines.                       *)
(*                                                                         *)
(* Python values are represented as follows: a string is a TLA+ string,    *)
(* None in a string field is NoneStr; an id is an integer, None in an id   *)
(* field is NoneId; a text whose content does not matter (HTML) is         *)
(* represented by its length, None being NoneLen; a doc_path is a sequence *)
(* of strings, None being NoPath.                                          *)
(***************************************************************************)
EXTENDS Integers, Sequences, FiniteSets, TLC

\* ------------------------------------------------------------------ bounds
MaxBatch == 2
MaxRuns == 2
MaxFaults == 2
MaxResolves == 3
MaxRequests == 2
MaxScheduledRuns == 2
MaxCalls == 3
MaxPolls == 3

\* --------------------------------------------------------- value encodings
NoneStr == "None"
NoneId == 0 - 1
NoneLen == 0 - 1
NoPath == << >>

\* Python truthiness of an Optional[str], an Optional[int] and of a text
\* represented by its length ("" and 0 are falsy as well as None).
TruthyStr(s) == s # NoneStr /\ s # ""
TruthyId(i) == i # NoneId /\ i # 0
TruthyLen(n) == n # NoneLen /\ n # 0

\* str.lower() and str.upper() on the strings the model uses.
Lower(s) ==
    CASE s = "Regulatory Return" -> "regulatory return"
      [] s = "Regulatory Returns" -> "regulatory returns"
      [] s = "Circular" -> "circular"
      [] s = "Notification" -> "notification"
      [] s = "SAMA Circulars" -> "sama circulars"
      [] OTHER -> s

Upper(s) ==
    CASE s = "DPC-Circular" -> "DPC-CIRCULAR"
      [] s = "dpc-circular" -> "DPC-CIRCULAR"
      [] s = "sama" -> "SAMA"
      [] OTHER -> s

Range(q) == { q[i] : i \in 1..Len(q) }

\* ------------------------------------------------------------ descriptors
PathCirc == << "SBP", "Circular" >>
PathRet == << "SBP", "Returns" >>
PathRule == << "SAMA", "SAMA Circulars" >>
PathSamaRet == << "SAMA", "Returns" >>
HtmlPresent == 200

\* A descriptor that leaves the collector with an id already set.
RegulatoryDocument_with_id(t, d, p, c, s, link, html) ==
    [ title |-> t, published_date |-> d, doc_path |-> p, category |-> c,
      source_system |-> s, document_url |-> "url", org_pdf_link |-> link,
      document_html |-> html, file_type |-> NoneStr,
      compliancecategory_id |-> NoneId, id |-> 1 ]

RegulatoryDocument(t, d, p, c, s, link, html) ==
    [ title |-> t, published_date |-> d, doc_path |-> p, category |-> c,
      source_system |-> s, document_url |-> "url", org_pdf_link |-> link,
      document_html |-> html, file_type |-> NoneStr,
      compliancecategory_id |-> NoneId, id |-> NoneId ]

\* The descriptors the SBP collector may produce: the dated circular of the
\* spec's example, a dated regulatory return (category as sbp_crawler.py emits
\* it), an undated regulatory return, an undated DPC circular and an undated
\* notification.
SbpDocuments ==
    { RegulatoryDocument("Circular 3 of 2025", "01/03/2025", PathCirc, "Circular",
                         "SBP-CIRCULAR", NoneStr, NoneLen),
      RegulatoryDocument("Return A", "01/03/2025", PathRet, "Regulatory Return",
                         "SBP-REGULATORY RETURN", NoneStr, NoneLen),
      RegulatoryDocument("Return A", NoneStr, PathRet, "Regulatory Returns",
                         "SBP-REGULATORY RETURNS", NoneStr, NoneLen),
      RegulatoryDocument("DPC 1", NoneStr, NoPath, "Circular",
                         "DPC-Circular", NoneStr, NoneLen),
      RegulatoryDocument("Notice 1", NoneStr, PathCirc, "Notification",
                         "SBP-NOTIFICATION", NoneStr, NoneLen) }

\* The descriptors the SAMA collector may produce: a rule with an org_pdf_link
\* in extra_meta, the same key with document_html only, a rule with neither,
\* and an undated regulatory return.
SamaDocuments ==
    { RegulatoryDocument("Rule 1", "01/03/2025", PathRule, "SAMA Circulars",
                         "SAMA RULEBOOK", "pdf", NoneLen),
      RegulatoryDocument("Rule 1", "01/03/2025", PathRule, "SAMA Circulars",
                         "SAMA RULEBOOK", NoneStr, HtmlPresent),
      RegulatoryDocument("Rule 2", "01/03/2025", PathRule, "SAMA Circulars",
                         "SAMA RULEBOOK", NoneStr, NoneLen),
      RegulatoryDocument("Return B", NoneStr, PathSamaRet, "regulatory returns",
                         "SAMA RULEBOOK", NoneStr, NoneLen) }

Regulators == { "SBP", "SAMA" }

Documents(name) == IF name = "SAMA" THEN SamaDocuments ELSE SbpDocuments

Batches(name) == UNION { [1..n -> Documents(name)] : n \in 1..MaxBatch }

\* ------------------------------------------------------------------ state
VARIABLES
    site,            \* the descriptor list the collector finds on the regulator's site
    folder_seed,     \* the id the repository gives to the first category node
    rows,            \* store: regulation rows, in insertion order
    folders,         \* store: category nodes, in insertion order
    analyses,        \* store: regulation ids with a stored compliance analysis
    logs,            \* store: Processing Log entries, in write order
    runs,            \* number of runs started so far
    faults,          \* number of collaborator failures so far
    pc,              \* position of the run in run_for_regulator / _process_single_doc
    regulator_name,  \* the regulator whose collector and pipeline this is
    docs,            \* the list fetch_documents returned (descriptors are mutable)
    new_docs,        \* filter result: positions in docs classified new
    existing_docs,   \* filter result: positions in docs classified existing
    k,               \* loop index into new_docs (line 56)
    html_content,    \* local of the SAMA branch
    branch,          \* branch entered for the current descriptor
    calls,           \* collaborator calls made for the current descriptor
    mark,            \* store sizes when the current descriptor's processing began
    processed,       \* positions whose processing returned in the current run
    retrieval_failed, \* positions whose download raised in the latest run that processed
    resolved,        \* category resolutions made one after another: path and id
    pipeline_lock,   \* pipeline_api.pipeline_lock: "free" or "held"
    schedule,        \* pipeline_schedule: status of each regulator's row
    pipeline_status, \* pipeline_status rows, in insertion order
    sched_pc,        \* position of the scheduler_loop thread
    sched_job,       \* the job the scheduler_loop selected
    sched_runs,      \* pipelines the scheduler_loop has started
    api,             \* the request threads serving the trigger endpoints
    io,              \* one Retrieval or Conversion call and the remote service it talks to
    check_raised,    \* positions in docs whose existence check raised in the current run
    race             \* two runs resolving a category path at the same time

store == << rows, folders, analyses, logs >>
run == << runs, pc, docs, new_docs, existing_docs, k, html_content,
          branch, calls, mark, processed, retrieval_failed, check_raised >>
scheduling == << pipeline_lock, schedule, pipeline_status, sched_pc, sched_job,
                 sched_runs, api >>
vars == << site, regulator_name, folder_seed, faults, store, run, resolved, scheduling, io,
          race >>

\* ------------------------------------------------- Persistence Gateway
\* A stored row matches on title, on published_date when one is given, and on
\* doc_path.
document_exists(rs, title, published_date, doc_path) ==
    \E i \in 1..Len(rs) :
        /\ rs[i].title = title
        /\ published_date # NoneStr => rs[i].published_date = published_date
        /\ rs[i].doc_path = doc_path

NextRegulationId(rs) == Len(rs) + 1

_insert_regulation(rs, doc) ==
    Append(rs, [ id |-> NextRegulationId(rs), title |-> doc.title,
                 published_date |-> doc.published_date, doc_path |-> doc.doc_path,
                 document_url |-> doc.document_url,
                 compliancecategory_id |-> doc.compliancecategory_id ])

FolderId(seed, i) == seed + i - 1

get_folder_id(fs, seed, title, parent_id) ==
    IF \E i \in 1..Len(fs) : fs[i].title = title /\ fs[i].parent_id = parent_id
    THEN FolderId(seed, CHOOSE i \in 1..Len(fs) :
                            /\ fs[i].title = title /\ fs[i].parent_id = parent_id
                            /\ \A j \in 1..(i - 1) :
                                  ~(fs[j].title = title /\ fs[j].parent_id = parent_id))
    ELSE NoneId

insert_folder(fs, title, parent_id) ==
    Append(fs, [ title |-> title, parent_id |-> parent_id ])

_log_processing(ls, regulation_id, step, status) ==
    Append(ls, [ regulation_id |-> regulation_id, step |-> step, status |-> status ])

store_compliance_analysis(as, regulation_id) == as \cup { regulation_id }

\* ------------------------------------------------------------ Orchestrator
\* log without its try/except: a failing repository write leaves log as an
\* exception.
log_propagates(ls, regulation_id, step, status, fails) ==
    [ logs |-> IF fails THEN ls ELSE _log_processing(ls, regulation_id, step, status),
      raised |-> fails ]

\* log that never reaches the repository.
log_dropped(ls, regulation_id, step, status, fails) ==
    [ logs |-> ls, raised |-> FALSE ]

\* Orchestrator.log: the repository write inside try/except Exception. The
\* result says whether an exception leaves log.
log(ls, regulation_id, step, status, fails) ==
    [ logs |-> IF fails THEN ls ELSE _log_processing(ls, regulation_id, step, status),
      raised |-> FALSE ]

\* check_exists_in_db answering True when the repository check raises.
check_exists_fail_closed(rs, title, published_date, doc_path, raises) ==
    raises \/ document_exists(rs, title, published_date, doc_path)

check_exists_in_db(rs, title, published_date, doc_path, raises) ==
    IF raises THEN FALSE ELSE document_exists(rs, title, published_date, doc_path)

IsRegulatoryReturns(doc) == Lower(doc.category) = "regulatory returns"

IsDpcCircular(doc) == Upper(doc.source_system) = "DPC-CIRCULAR"

\* The routing without the DPC-CIRCULAR test of line 99.
FilterRoute_without_dpc(doc) ==
    IF TruthyStr(doc.published_date) THEN "dated"
    ELSE IF IsRegulatoryReturns(doc) THEN "undated"
    ELSE "skip"

\* The key filter_new_documents checks for a descriptor, or "skip".
FilterRoute(doc) ==
    IF TruthyStr(doc.published_date) THEN "dated"
    ELSE IF IsRegulatoryReturns(doc) THEN "undated"
    ELSE IF IsDpcCircular(doc) THEN "undated"
    ELSE "skip"

\* Classification of one descriptor by the loop body of filter_new_documents.
FilterClass(rs, doc, raises) ==
    LET route == FilterRoute(doc)
        exists == check_exists_in_db(rs, doc.title,
                                     IF route = "dated" THEN doc.published_date ELSE NoneStr,
                                     doc.doc_path, raises)
    IN  IF route = "skip" THEN "skipped"
        ELSE IF exists THEN "existing" ELSE "new"

Positions(ds, rs, failing, class) ==
    SelectSeq([ i \in 1..Len(ds) |-> i ],
              LAMBDA i : FilterClass(rs, ds[i], i \in failing) = class)

\* filter_new_documents appending every checked descriptor to existing_docs.
filter_new_documents_both(ds, rs, failing) ==
    [ new |-> Positions(ds, rs, failing, "new"),
      existing |-> SelectSeq([ i \in 1..Len(ds) |-> i ],
                             LAMBDA i : FilterRoute(ds[i]) # "skip") ]

\* filter_new_documents returning the new descriptors last first.
filter_new_documents_reversed(ds, rs, failing) ==
    LET new == Positions(ds, rs, failing, "new")
    IN  [ new |-> [ i \in 1..Len(new) |-> new[Len(new) + 1 - i] ],
          existing |-> Positions(ds, rs, failing, "existing") ]

\* filter_new_documents: the positions appended to new_docs and to
\* existing_docs, in input order; failing are the positions whose existence
\* check raises in the repository.
filter_new_documents(ds, rs, failing) ==
    [ new |-> Positions(ds, rs, failing, "new"),
      existing |-> Positions(ds, rs, failing, "existing") ]

Checked(ds) == { i \in 1..Len(ds) : FilterRoute(ds[i]) # "skip" }

NoMark == [ rows |-> 0, logs |-> 0, analyses |-> 0 ]

\* The store and the run before anything has happened.
EmptyStore ==
    /\ rows = << >>
    /\ folders = << >>
    /\ analyses = { }
    /\ logs = << >>

NoRun ==
    /\ runs = 0
    /\ faults = 0
    /\ pc = "idle"
    /\ docs = << >>
    /\ new_docs = << >>
    /\ existing_docs = << >>
    /\ k = 0
    /\ html_content = NoneLen
    /\ branch = "none"
    /\ calls = << >>
    /\ mark = NoMark
    /\ processed = << >>
    /\ retrieval_failed = { }
    /\ check_raised = { }

\* No Retrieval or Conversion call is in progress: op is the call, attempt the
\* downloader's loop variable, polls the job status polls made so far, job the
\* status of the conversion job at the remote service, n the calls ended so
\* far and last the outcome of the latest one.
NoIo == [ pc |-> "idle", op |-> "none", attempt |-> 0, polls |-> 0, job |-> "none",
          n |-> 0, last |-> "none" ]

\* The two runs that may resolve a category path at the same time, and neither
\* of them started: hierarchy is the path, i the level of the loop of line 124,
\* parent_id and folder_id its locals.
Resolvers == { 1, 2 }

NoRace == [ p \in Resolvers |-> [ pc |-> "idle", hierarchy |-> << >>, i |-> 0,
                                  parent_id |-> NoneId, folder_id |-> NoneId ] ]

Regulator_Pipelines == << "SBP", "SECP", "SAMA" >>

Requests == 1..MaxRequests

\* A request thread that serves no request: endpoint is the trigger endpoint
\* called, i the position in REGULATOR_PIPELINES of the pipeline function it
\* runs, errors the length of the errors list of /trigger/full and status the
\* response's status.
NoRequest == [ pc |-> "idle", endpoint |-> NoneStr, i |-> 0, errors |-> 0,
               status |-> NoneStr ]

NoScheduling ==
    /\ pipeline_lock = "free"
    /\ schedule = [ r \in Range(Regulator_Pipelines) |-> "NONE" ]
    /\ pipeline_status = << >>
    /\ sched_pc = "poll"
    /\ sched_job = NoneStr
    /\ sched_runs = 0
    /\ api = [ t \in Requests |-> NoRequest ]

\* One regulator's pipeline: its collector's site, an empty store whose
\* identity columns start at 1, no run yet.
Init ==
    /\ regulator_name \in Regulators
    /\ site \in Batches(regulator_name)
    /\ folder_seed = 1
    /\ EmptyStore
    /\ NoRun
    /\ resolved = << >>
    /\ NoScheduling
    /\ io = NoIo
    /\ race = NoRace

\* run_for_regulator catching a failing fetch_documents and returning.
RunForRegulator_swallows ==
    /\ pc = "idle"
    /\ runs < MaxRuns
    /\ runs' = runs + 1
    /\ \/ /\ faults < MaxFaults
          /\ faults' = faults + 1
          /\ pc' = "finished"
          /\ docs' = << >>
          /\ new_docs' = << >>
          /\ existing_docs' = << >>
          /\ check_raised' = { }
       \/ \E failing \in SUBSET Checked(site) :
            LET r == filter_new_documents(site, rows, failing) IN
            /\ faults + Cardinality(failing) <= MaxFaults
            /\ faults' = faults + Cardinality(failing)
            /\ docs' = site
            /\ new_docs' = r.new
            /\ existing_docs' = r.existing
            /\ check_raised' = failing
            /\ pc' = IF r.new = << >> THEN "finished" ELSE "loop"
    /\ k' = 0
    /\ html_content' = NoneLen
    /\ branch' = "none"
    /\ calls' = << >>
    /\ mark' = NoMark
    /\ processed' = << >>
    /\ UNCHANGED << resolved, io, race, retrieval_failed, scheduling, site, regulator_name, folder_seed, store >>

\* run_for_regulator, lines 43-54: fetch, filter, and return when nothing is
\* new. A failing fetch_documents propagates to the caller.
RunForRegulator ==
    /\ pc = "idle"
    /\ runs < MaxRuns
    /\ runs' = runs + 1
    /\ \/ /\ faults < MaxFaults
          /\ faults' = faults + 1
          /\ pc' = "raised"
          /\ docs' = << >>
          /\ new_docs' = << >>
          /\ existing_docs' = << >>
          /\ check_raised' = { }
       \/ \E failing \in SUBSET Checked(site) :
            LET r == filter_new_documents(site, rows, failing) IN
            /\ faults + Cardinality(failing) <= MaxFaults
            /\ faults' = faults + Cardinality(failing)
            /\ docs' = site
            /\ new_docs' = r.new
            /\ existing_docs' = r.existing
            /\ check_raised' = failing
            /\ pc' = IF r.new = << >> THEN "finished" ELSE "loop"
    /\ k' = 0
    /\ html_content' = NoneLen
    /\ branch' = "none"
    /\ calls' = << >>
    /\ mark' = NoMark
    /\ processed' = << >>
    /\ UNCHANGED << resolved, io, race, retrieval_failed, scheduling, site, regulator_name, folder_seed, store >>

\* ---------------------------------------------------- _process_single_doc
cur == new_docs[k]
doc == docs[cur]

B(f) == IF f THEN 1 ELSE 0

Call(op, out) == [ op |-> op, out |-> out ]

\* A log write attempted for the current descriptor, and whether the
\* repository stored it.
LogCall(status, fails) ==
    Call(CASE status = "ERROR" -> "log_error"
           [] status = "SUCCESS" -> "log_success"
           [] OTHER -> "log_started",
         IF fails THEN "lost" ELSE "written")

MinHtmlLen == 50
ConvertedLens == { 0, 49, 50 }

\* _get_or_create_compliance_category with a caller that keeps the id of the
\* last level resolved when a repository call raises.
RECURSIVE _get_or_create_keeps_parent(_, _, _, _, _, _)
_get_or_create_keeps_parent(hierarchy, i, parent_id, fs, seed, failAt) ==
    IF i > Len(hierarchy) THEN [ folders |-> fs, id |-> parent_id, raised |-> FALSE ]
    ELSE IF i = failAt THEN [ folders |-> fs, id |-> parent_id, raised |-> TRUE ]
    ELSE LET folder_id == get_folder_id(fs, seed, hierarchy[i], parent_id) IN
         IF TruthyId(folder_id)
         THEN _get_or_create_keeps_parent(hierarchy, i + 1, folder_id, fs, seed, failAt)
         ELSE _get_or_create_keeps_parent(
                  hierarchy, i + 1, FolderId(seed, Len(fs) + 1),
                  insert_folder(fs, hierarchy[i], parent_id), seed, failAt)

\* _get_or_create_compliance_category: walk hierarchy from level i under
\* parent_id; a repository call (lookup or creation) raises at level failAt
\* (0: none does). Result: the folders, the final id and whether it raised.
RECURSIVE _get_or_create_compliance_category(_, _, _, _, _, _)
_get_or_create_compliance_category(hierarchy, i, parent_id, fs, seed, failAt) ==
    IF i > Len(hierarchy) THEN [ folders |-> fs, id |-> parent_id, raised |-> FALSE ]
    ELSE IF i = failAt THEN [ folders |-> fs, id |-> NoneId, raised |-> TRUE ]
    ELSE LET folder_id == get_folder_id(fs, seed, hierarchy[i], parent_id) IN
         IF TruthyId(folder_id)
         THEN _get_or_create_compliance_category(hierarchy, i + 1, folder_id, fs, seed,
                                                 failAt)
         ELSE _get_or_create_compliance_category(
                  hierarchy, i + 1, FolderId(seed, Len(fs) + 1),
                  insert_folder(fs, hierarchy[i], parent_id), seed, failAt)

\* The branch test with the regulator checked before the category.
BranchOf_regulator_first(d, name) ==
    IF Upper(name) = "SAMA" THEN "sama"
    ELSE IF IsRegulatoryReturns(d) THEN "regulatory_returns"
    ELSE "normal"

\* Lines 157, 176, 289: the branch _process_single_doc takes, first match wins.
BranchOf(d, name) ==
    IF IsRegulatoryReturns(d) THEN "regulatory_returns"
    ELSE IF Upper(name) = "SAMA" THEN "sama"
    ELSE "normal"

\* Lines 178-189: html_content before any download, and the first step of the
\* SAMA branch.
SamaInitialHtml(d) ==
    IF ~TruthyStr(d.org_pdf_link) /\ TruthyLen(d.document_html) THEN d.document_html
    ELSE NoneLen

FirstStep(d, name) ==
    CASE BranchOf(d, name) = "regulatory_returns" -> "rr_insert"
      [] BranchOf(d, name) = "sama" ->
            IF TruthyStr(d.org_pdf_link) THEN "sama_download" ELSE "sama_insert"
      [] OTHER -> "download"

\* Line 204: the sanity check on the converted HTML.
ValidHtml(n) == ~(~TruthyLen(n) \/ n < MinHtmlLen)

\* The handler of lines 216-218 returning from the branch once it has logged.
After_handler_returns(l, next) ==
    IF l.raised THEN "raised"
    ELSE IF next = "sama_insert" /\ l.logs # logs THEN "returned"
    ELSE next

\* Where control goes after a log call: an exception leaving log inside a
\* handler, or inside a try block whose handler logs again, propagates out of
\* _process_single_doc and run_for_regulator.
After(l, next) == IF l.raised THEN "raised" ELSE next

\* Line 56-58 and 143: the loop takes the next new descriptor, or line 61.
NextDoc ==
    /\ pc = "loop"
    /\ IF k < Len(new_docs)
       THEN /\ k' = k + 1
            /\ pc' = "category"
            /\ mark' = [ rows |-> Len(rows), logs |-> Len(logs),
                         analyses |-> Cardinality(analyses) ]
            /\ retrieval_failed' = IF k = 0 THEN { } ELSE retrieval_failed
       ELSE /\ pc' = "finished"
            /\ UNCHANGED << k, mark, retrieval_failed >>
    /\ UNCHANGED << resolved, io, race, check_raised, scheduling, site, regulator_name, folder_seed, faults, store, runs, docs,
                    new_docs, existing_docs, html_content, branch, calls, processed >>

\* Lines 145-189: category resolution, then the choice of the branch.
ResolveCategory ==
    /\ pc = "category"
    /\ IF doc.doc_path # NoPath
       THEN \E failAt \in 0..Len(doc.doc_path) :
              LET r == _get_or_create_compliance_category(doc.doc_path, 1, NoneId, folders,
                                                          folder_seed, failAt)
                  d == [ doc EXCEPT !.compliancecategory_id = r.id ]
              IN  /\ faults + B(failAt # 0) <= MaxFaults
                  /\ faults' = faults + B(failAt # 0)
                  /\ folders' = r.folders
                  /\ docs' = [ docs EXCEPT ![cur] = d ]
                  /\ calls' = Append(calls, Call("category",
                                                 IF r.raised THEN "raise" ELSE "ok"))
       ELSE /\ docs' = [ docs EXCEPT ![cur].compliancecategory_id = NoneId ]
            /\ UNCHANGED << faults, folders, calls >>
    /\ branch' = BranchOf(doc, regulator_name)
    /\ html_content' = IF BranchOf(doc, regulator_name) = "sama"
                       THEN SamaInitialHtml(doc) ELSE NoneLen
    /\ pc' = FirstStep(doc, regulator_name)
    /\ UNCHANGED << resolved, io, race, check_raised, retrieval_failed, scheduling, site, regulator_name, folder_seed, rows, analyses, logs, runs,
                    new_docs, existing_docs, k, mark, processed >>

\* Lines 158-174: the regulatory returns branch.
RegulatoryReturnInsert ==
    /\ pc = "rr_insert"
    /\ \E insFails \in BOOLEAN, logFails \in BOOLEAN :
         LET regulation_id == NextRegulationId(rows)
             l == IF insFails THEN log(logs, NoneId, "insert", "ERROR", logFails)
                  ELSE log(logs, regulation_id, "insert", "SUCCESS", logFails)
         IN  /\ faults + B(insFails) + B(logFails) <= MaxFaults
             /\ faults' = faults + B(insFails) + B(logFails)
             /\ rows' = IF insFails THEN rows ELSE _insert_regulation(rows, doc)
             /\ docs' = IF insFails THEN docs ELSE [ docs EXCEPT ![cur].id = regulation_id ]
             /\ calls' = calls \o << Call("insert", IF insFails THEN "raise" ELSE "ok"),
                                     LogCall(IF insFails THEN "ERROR" ELSE "SUCCESS",
                                             logFails) >>
             /\ logs' = l.logs
             /\ pc' = After(l, "returned")
    /\ UNCHANGED << resolved, io, race, check_raised, retrieval_failed, scheduling, site, regulator_name, folder_seed, folders, analyses, runs, new_docs,
                    existing_docs, k, html_content, branch, mark, processed >>

\* Lines 190-198 and 216-218: the SAMA download of org_pdf_link.
SamaDownload ==
    /\ pc = "sama_download"
    /\ \E dlFails \in BOOLEAN, logFails \in BOOLEAN :
         LET l == IF dlFails THEN log(logs, NoneId, "pdf_conversion", "ERROR", logFails)
                  ELSE [ logs |-> logs, raised |-> FALSE ]
         IN  /\ dlFails \/ ~logFails
             /\ faults + B(dlFails) + B(logFails) <= MaxFaults
             /\ faults' = faults + B(dlFails) + B(logFails)
             /\ docs' = [ docs EXCEPT ![cur].file_type = "PDF",
                                      ![cur].document_url =
                                          IF dlFails THEN doc.org_pdf_link
                                          ELSE doc.document_url ]
             /\ calls' = calls \o << Call("download", IF dlFails THEN "raise" ELSE "ok") >>
                                \o IF dlFails THEN << LogCall("ERROR", logFails) >>
                                   ELSE << >>
             /\ retrieval_failed' = IF dlFails THEN retrieval_failed \cup { cur }
                                    ELSE retrieval_failed
             /\ logs' = l.logs
             /\ pc' = After(l, IF dlFails THEN "sama_insert" ELSE "sama_convert")
    /\ UNCHANGED << resolved, io, race, check_raised, scheduling, site, regulator_name, folder_seed, rows, folders, analyses, runs,
                    new_docs, existing_docs, k, html_content, branch, mark, processed >>

\* Lines 199-218: the conversion of the downloaded PDF and its sanity check.
\* out is the length of the returned HTML, or NoneLen when the call raises.
SamaConvert ==
    /\ pc = "sama_convert"
    /\ \E out \in ConvertedLens \cup { NoneLen }, logFails \in BOOLEAN :
         LET failed == out = NoneLen \/ ~ValidHtml(out)
             l == IF failed THEN log(logs, NoneId, "pdf_conversion", "ERROR", logFails)
                  ELSE [ logs |-> logs, raised |-> FALSE ]
         IN  /\ failed \/ ~logFails
             /\ faults + B(failed) + B(logFails) <= MaxFaults
             /\ faults' = faults + B(failed) + B(logFails)
             /\ html_content' = IF out = NoneLen THEN html_content ELSE out
             /\ calls' = Append(calls, Call("convert",
                                   CASE out = NoneLen -> "raise"
                                     [] out = 0 -> "empty"
                                     [] out # 0 /\ ~ValidHtml(out) -> "short"
                                     [] OTHER -> "ok"))
                                \o IF failed THEN << LogCall("ERROR", logFails) >>
                                   ELSE << >>
             /\ logs' = l.logs
             /\ pc' = After(l, "sama_insert")
    /\ UNCHANGED << resolved, io, race, check_raised, retrieval_failed, scheduling, site, regulator_name, folder_seed, rows, folders, analyses, runs,
                    docs, new_docs, existing_docs, k, branch, mark, processed >>

\* Lines 223-234 and 284-287: the SAMA insertion.
SamaInsert ==
    /\ pc = "sama_insert"
    /\ \E insFails \in BOOLEAN, logFails \in BOOLEAN :
         LET regulation_id == NextRegulationId(rows)
             l == IF insFails THEN log(logs, NoneId, "insert", "ERROR", logFails)
                  ELSE log(logs, regulation_id, "insert", "SUCCESS", logFails)
         IN  /\ faults + B(insFails) + B(logFails) <= MaxFaults
             /\ faults' = faults + B(insFails) + B(logFails)
             /\ rows' = IF insFails THEN rows ELSE _insert_regulation(rows, doc)
             /\ docs' = IF insFails THEN docs ELSE [ docs EXCEPT ![cur].id = regulation_id ]
             /\ calls' = calls \o << Call("insert", IF insFails THEN "raise" ELSE "ok"),
                                     LogCall(IF insFails THEN "ERROR" ELSE "SUCCESS",
                                             logFails) >>
             /\ logs' = l.logs
             /\ pc' = After(l, IF ~insFails /\ TruthyLen(html_content)
                               THEN "sama_analyze" ELSE "returned")
    /\ UNCHANGED << resolved, io, race, check_raised, retrieval_failed, scheduling, site, regulator_name, folder_seed, folders, analyses, runs, new_docs,
                    existing_docs, k, html_content, branch, mark, processed >>

\* The Analysis Service call without the STARTED entry of lines 236-241.
SamaAnalyze_without_started ==
    /\ pc = "sama_analyze"
    /\ \E anaFails \in BOOLEAN, logFails \in BOOLEAN :
         LET l2 == IF anaFails THEN log(logs, doc.id, "llm_analysis", "ERROR", logFails)
                   ELSE [ logs |-> logs, raised |-> FALSE ]
         IN  /\ anaFails \/ ~logFails
             /\ faults + B(anaFails) + B(logFails) <= MaxFaults
             /\ faults' = faults + B(anaFails) + B(logFails)
             /\ calls' = calls \o << Call("analyze", IF anaFails THEN "raise" ELSE "ok") >>
                                \o IF anaFails THEN << LogCall("ERROR", logFails) >>
                                   ELSE << >>
             /\ logs' = l2.logs
             /\ pc' = After(l2, IF anaFails THEN "returned" ELSE "sama_store")
    /\ UNCHANGED << resolved, io, race, check_raised, retrieval_failed, scheduling, site, regulator_name, folder_seed, rows, folders, analyses, runs,
                    docs, new_docs, existing_docs, k, html_content, branch, mark,
                    processed >>

\* Lines 235-247 and 266-275: the STARTED entry and the Analysis Service call.
SamaAnalyze ==
    /\ pc = "sama_analyze"
    /\ \E anaFails \in BOOLEAN, startFails \in BOOLEAN, logFails \in BOOLEAN :
         LET l1 == log(logs, doc.id, "llm_analysis", "STARTED", startFails)
             l2 == IF anaFails THEN log(l1.logs, doc.id, "llm_analysis", "ERROR", logFails)
                   ELSE [ logs |-> l1.logs, raised |-> FALSE ]
         IN  /\ anaFails \/ ~logFails
             /\ faults + B(anaFails) + B(startFails) + B(logFails) <= MaxFaults
             /\ faults' = faults + B(anaFails) + B(startFails) + B(logFails)
             /\ calls' = calls \o << LogCall("STARTED", startFails),
                                     Call("analyze", IF anaFails THEN "raise" ELSE "ok") >>
                                \o IF anaFails THEN << LogCall("ERROR", logFails) >>
                                   ELSE << >>
             /\ logs' = l2.logs
             /\ pc' = After(l1, After(l2, IF anaFails THEN "returned" ELSE "sama_store"))
    /\ UNCHANGED << resolved, io, race, check_raised, retrieval_failed, scheduling, site, regulator_name, folder_seed, rows, folders, analyses, runs,
                    docs, new_docs, existing_docs, k, html_content, branch, mark,
                    processed >>

\* Storing the analysis result without the inner try of line 235: a failure
\* reaches the handler of lines 284-287.
SamaStoreAnalysis_outer_handler ==
    /\ pc = "sama_store"
    /\ \E stoFails \in BOOLEAN, logFails \in BOOLEAN :
         LET l == IF stoFails THEN log(logs, NoneId, "insert", "ERROR", logFails)
                  ELSE log(logs, doc.id, "llm_analysis", "SUCCESS", logFails)
         IN  /\ faults + B(stoFails) + B(logFails) <= MaxFaults
             /\ faults' = faults + B(stoFails) + B(logFails)
             /\ analyses' = IF stoFails THEN analyses
                            ELSE store_compliance_analysis(analyses, doc.id)
             /\ calls' = calls \o << Call("store", IF stoFails THEN "raise" ELSE "ok"),
                                     LogCall(IF stoFails THEN "ERROR" ELSE "SUCCESS",
                                             logFails) >>
             /\ logs' = l.logs
             /\ pc' = After(l, "returned")
    /\ UNCHANGED << resolved, io, race, check_raised, retrieval_failed, scheduling, site, regulator_name, folder_seed, rows, folders, runs, docs,
                    new_docs, existing_docs, k, html_content, branch, mark, processed >>

\* Lines 249-275: storing the analysis result and the final log entry.
SamaStoreAnalysis ==
    /\ pc = "sama_store"
    /\ \E stoFails \in BOOLEAN, logFails \in BOOLEAN :
         LET l == IF stoFails THEN log(logs, doc.id, "llm_analysis", "ERROR", logFails)
                  ELSE log(logs, doc.id, "llm_analysis", "SUCCESS", logFails)
         IN  /\ faults + B(stoFails) + B(logFails) <= MaxFaults
             /\ faults' = faults + B(stoFails) + B(logFails)
             /\ analyses' = IF stoFails THEN analyses
                            ELSE store_compliance_analysis(analyses, doc.id)
             /\ calls' = calls \o << Call("store", IF stoFails THEN "raise" ELSE "ok"),
                                     LogCall(IF stoFails THEN "ERROR" ELSE "SUCCESS",
                                             logFails) >>
             /\ logs' = l.logs
             /\ pc' = After(l, "returned")
    /\ UNCHANGED << resolved, io, race, check_raised, retrieval_failed, scheduling, site, regulator_name, folder_seed, rows, folders, runs, docs,
                    new_docs, existing_docs, k, html_content, branch, mark, processed >>

\* The download of the normal flow without the return of line 297: after a
\* failure has been logged the insertion follows.
Download_continues ==
    /\ pc = "download"
    /\ \E dlFails \in BOOLEAN, logFails \in BOOLEAN :
         LET l == IF dlFails THEN log(logs, NoneId, "download", "ERROR", logFails)
                  ELSE [ logs |-> logs, raised |-> FALSE ]
         IN  /\ dlFails \/ ~logFails
             /\ faults + B(dlFails) + B(logFails) <= MaxFaults
             /\ faults' = faults + B(dlFails) + B(logFails)
             /\ calls' = calls \o << Call("download", IF dlFails THEN "raise" ELSE "ok") >>
                                \o IF dlFails THEN << LogCall("ERROR", logFails) >>
                                   ELSE << >>
             /\ retrieval_failed' = IF dlFails THEN retrieval_failed \cup { cur }
                                    ELSE retrieval_failed
             /\ logs' = l.logs
             /\ pc' = After(l, "insert")
    /\ UNCHANGED << resolved, io, race, check_raised, scheduling, site, regulator_name, folder_seed, rows, folders,
                    analyses, runs, docs, new_docs, existing_docs, k, html_content, branch,
                    mark, processed >>

\* Lines 291-297: the download of the normal flow.
Download ==
    /\ pc = "download"
    /\ \E dlFails \in BOOLEAN, logFails \in BOOLEAN :
         LET l == IF dlFails THEN log(logs, NoneId, "download", "ERROR", logFails)
                  ELSE [ logs |-> logs, raised |-> FALSE ]
         IN  /\ dlFails \/ ~logFails
             /\ faults + B(dlFails) + B(logFails) <= MaxFaults
             /\ faults' = faults + B(dlFails) + B(logFails)
             /\ calls' = calls \o << Call("download", IF dlFails THEN "raise" ELSE "ok") >>
                                \o IF dlFails THEN << LogCall("ERROR", logFails) >>
                                   ELSE << >>
             /\ retrieval_failed' = IF dlFails THEN retrieval_failed \cup { cur }
                                    ELSE retrieval_failed
             /\ logs' = l.logs
             /\ pc' = After(l, IF dlFails THEN "returned" ELSE "insert")
    /\ UNCHANGED << resolved, io, race, check_raised, scheduling, site, regulator_name, folder_seed, rows, folders, analyses, runs,
                    docs, new_docs, existing_docs, k, html_content, branch, mark,
                    processed >>

\* Lines 299-311: the insertion of the normal flow.
Insert ==
    /\ pc = "insert"
    /\ \E insFails \in BOOLEAN, logFails \in BOOLEAN :
         LET regulation_id == NextRegulationId(rows)
             l == IF insFails THEN log(logs, NoneId, "insert", "ERROR", logFails)
                  ELSE log(logs, regulation_id, "insert", "SUCCESS", logFails)
         IN  /\ faults + B(insFails) + B(logFails) <= MaxFaults
             /\ faults' = faults + B(insFails) + B(logFails)
             /\ rows' = IF insFails THEN rows ELSE _insert_regulation(rows, doc)
             /\ docs' = IF insFails THEN docs ELSE [ docs EXCEPT ![cur].id = regulation_id ]
             /\ calls' = calls \o << Call("insert", IF insFails THEN "raise" ELSE "ok"),
                                     LogCall(IF insFails THEN "ERROR" ELSE "SUCCESS",
                                             logFails) >>
             /\ logs' = l.logs
             /\ pc' = After(l, "returned")
    /\ UNCHANGED << resolved, io, race, check_raised, retrieval_failed, scheduling, site, regulator_name, folder_seed, folders, analyses, runs, new_docs,
                    existing_docs, k, html_content, branch, mark, processed >>

\* _process_single_doc returns to the loop of run_for_regulator (line 58-59);
\* its locals are gone.
DocReturns ==
    /\ pc = "returned"
    /\ processed' = Append(processed, cur)
    /\ pc' = "loop"
    /\ calls' = << >>
    /\ branch' = "none"
    /\ html_content' = NoneLen
    /\ mark' = NoMark
    /\ UNCHANGED << resolved, io, race, check_raised, retrieval_failed, scheduling, site, regulator_name, folder_seed, faults, store, runs, docs,
                    new_docs, existing_docs, k >>

\* The caller of run_for_regulator takes the result (return or exception);
\* the run's locals are gone.
RunReturns ==
    /\ pc \in { "finished", "raised" }
    /\ pc' = "idle"
    /\ docs' = << >>
    /\ new_docs' = << >>
    /\ existing_docs' = << >>
    /\ k' = 0
    /\ processed' = << >>
    /\ calls' = << >>
    /\ branch' = "none"
    /\ html_content' = NoneLen
    /\ mark' = NoMark
    /\ retrieval_failed' = IF pc = "finished" /\ new_docs = << >> THEN { }
                           ELSE retrieval_failed
    /\ check_raised' = { }
    /\ UNCHANGED << resolved, io, race, scheduling, site, regulator_name, folder_seed, faults, store, runs >>

Next ==
    \/ RunForRegulator
    \/ NextDoc
    \/ ResolveCategory
    \/ RegulatoryReturnInsert
    \/ SamaDownload
    \/ SamaConvert
    \/ SamaInsert
    \/ SamaAnalyze
    \/ SamaStoreAnalysis
    \/ Download
    \/ Insert
    \/ DocReturns
    \/ RunReturns

Spec == Init /\ [][Next]_vars

\* ------------------------------------------------- category resolution
\* Category paths resolved one after another against one store, for a
\* repository whose first category id is 0 or 1.
FolderSeeds == { 0, 1 }

Hierarchies == { PathCirc, PathRet, PathRule, PathSamaRet }

InitCategory ==
    /\ regulator_name = NoneStr
    /\ site = << >>
    /\ folder_seed \in FolderSeeds
    /\ EmptyStore
    /\ NoRun
    /\ resolved = << >>
    /\ NoScheduling
    /\ io = NoIo
    /\ race = NoRace

\* Lines 147-154: one call of _get_or_create_compliance_category from
\* _process_single_doc, with its try/except.
ResolvePath ==
    /\ Len(resolved) < MaxResolves
    /\ \E hierarchy \in Hierarchies :
         \E failAt \in 0..Len(hierarchy) :
           LET r == _get_or_create_compliance_category(hierarchy, 1, NoneId, folders,
                                                       folder_seed, failAt)
           IN  /\ faults + B(failAt # 0) <= MaxFaults
               /\ faults' = faults + B(failAt # 0)
               /\ folders' = r.folders
               /\ resolved' = Append(resolved, [ path |-> hierarchy, id |-> r.id,
                                                 raised |-> r.raised ])
    /\ UNCHANGED << io, race, scheduling, site, regulator_name, folder_seed, rows, analyses,
                    logs, run >>

NextCategory == ResolvePath

SpecCategory == InitCategory /\ [][NextCategory]_vars

\* ------------------------------------------- Retrieval and Conversion calls
\* Downloader.download and pdfco_pdf_to_html, one call after another, against
\* a remote service that answers as it likes.
retries == 3

UrlKinds == { "none", "javascript", "download", "pdf", "page" }

\* Downloader.download, lines 78-94: the route taken for a document_url.
DownloadRoute(url) ==
    CASE url \in { "none", "javascript" } -> "invalid"
      [] url \in { "download", "pdf" } -> "binary"
      [] OTHER -> "html_to_pdf"

others == << site, regulator_name, folder_seed, faults, store, run, resolved, scheduling,
            race >>

InitIo ==
    /\ regulator_name = NoneStr
    /\ site = << >>
    /\ folder_seed = 1
    /\ EmptyStore
    /\ NoRun
    /\ resolved = << >>
    /\ NoScheduling
    /\ io = NoIo
    /\ race = NoRace

IoRunning == io.pc \in { "binary", "html_to_pdf", "polling", "checking", "retrieve" }
IoEnded == io.pc \in { "returned", "raised" }

\* Downloader.download, lines 60-94.
StartDownload ==
    /\ io.pc = "idle"
    /\ io.n < MaxCalls
    /\ \E url \in UrlKinds :
         io' = IF DownloadRoute(url) = "invalid"
               THEN [ io EXCEPT !.pc = "raised", !.op = "download" ]
               ELSE [ io EXCEPT !.pc = DownloadRoute(url), !.op = DownloadRoute(url),
                                !.attempt = 1 ]
    /\ UNCHANGED others

\* One iteration of the retry loop of _download_binary (107-124) or of
\* _html_to_pdf (130-159): the attempt returns, or fails and the loop goes on
\* until attempt = retries, after which RuntimeError is raised.
Attempt(ok) ==
    IF ok THEN [ io EXCEPT !.pc = "returned" ]
    ELSE IF io.attempt < retries THEN [ io EXCEPT !.attempt = io.attempt + 1 ]
    ELSE [ io EXCEPT !.pc = "raised" ]

BinaryAttempt ==
    /\ io.pc = "binary"
    /\ \E ok \in BOOLEAN : io' = Attempt(ok)
    /\ UNCHANGED others

HtmlToPdfAttempt ==
    /\ io.pc = "html_to_pdf"
    /\ \E ok \in BOOLEAN : io' = Attempt(ok)
    /\ UNCHANGED others

\* pdfco_pdf_to_html, lines 29-86: key check, upload, conversion request.
ConvertResponses == { "no_key", "upload_error", "url", "url_http_error", "error",
                      "no_job_id", "job_id" }

StartConvert ==
    /\ io.pc = "idle"
    /\ io.n < MaxCalls
    /\ \E resp \in ConvertResponses :
         io' = CASE resp = "url" -> [ io EXCEPT !.pc = "returned", !.op = "convert" ]
                 [] resp = "job_id" -> [ io EXCEPT !.pc = "polling", !.op = "convert",
                                                  !.job = "working" ]
                 [] OTHER -> [ io EXCEPT !.pc = "raised", !.op = "convert" ]
    /\ UNCHANGED others

\* The remote service ends the conversion job, when it does.
RemoteJobEnds ==
    /\ io.pc \in { "polling", "checking" }
    /\ io.job = "working"
    /\ \E status \in { "success", "failed" } : io' = [ io EXCEPT !.job = status ]
    /\ UNCHANGED others

\* Line 91: the polling loop sleeps before each status request.
PollSleep ==
    /\ io.pc = "polling"
    /\ io' = [ io EXCEPT !.pc = "checking" ]
    /\ UNCHANGED others

\* Lines 93-107: the status request of one iteration of the polling loop;
\* any status other than success and failed starts the next iteration. polls
\* counts up to MaxPolls and stays there.
Poll ==
    /\ io.pc = "checking"
    /\ LET polled == [ io EXCEPT !.polls = IF io.polls < MaxPolls THEN io.polls + 1
                                           ELSE io.polls ]
       IN  io' = CASE io.job = "success" -> [ polled EXCEPT !.pc = "retrieve" ]
                   [] io.job = "failed" -> [ polled EXCEPT !.pc = "raised" ]
                   [] OTHER -> [ polled EXCEPT !.pc = "polling" ]
    /\ UNCHANGED others

\* Lines 114-133: the HTML is taken from the job result or fetched.
Retrieve ==
    /\ io.pc = "retrieve"
    /\ \E ok \in BOOLEAN : io' = [ io EXCEPT !.pc = IF ok THEN "returned" ELSE "raised" ]
    /\ UNCHANGED others

\* The calling branch takes the result or the exception.
CallEnds ==
    /\ IoEnded
    /\ io' = [ NoIo EXCEPT !.n = io.n + 1, !.last = io.pc ]
    /\ UNCHANGED others

NextIo ==
    \/ StartDownload
    \/ BinaryAttempt
    \/ HtmlToPdfAttempt
    \/ StartConvert
    \/ RemoteJobEnds
    \/ PollSleep
    \/ Poll
    \/ Retrieve
    \/ CallEnds

\* The program's own steps are taken when they can be; the remote service is
\* under no obligation.
SpecIo ==
    /\ InitIo
    /\ [][NextIo]_vars
    /\ WF_vars(BinaryAttempt)
    /\ WF_vars(HtmlToPdfAttempt)
    /\ WF_vars(PollSleep)
    /\ WF_vars(Poll)
    /\ WF_vars(Retrieve)
    /\ WF_vars(CallEnds)

\* ----------------------------------------- concurrent category resolution
\* Two runs (pipelines started by the trigger endpoints run side by side) call
\* _get_or_create_compliance_category on one store; each repository call is a
\* step of its own.
InitRace ==
    /\ regulator_name = NoneStr
    /\ site = << >>
    /\ folder_seed = 1
    /\ EmptyStore
    /\ NoRun
    /\ resolved = << >>
    /\ NoScheduling
    /\ io = NoIo
    /\ race = NoRace

bystanders == << site, regulator_name, folder_seed, faults, rows, analyses, logs, run,
                 resolved, scheduling, io >>

\* Lines 126-129: parent_id takes the id found or created; line 124 takes the
\* next title, or line 131 returns.
Descend(r, id) ==
    [ r EXCEPT !.parent_id = id, !.folder_id = NoneId, !.i = r.i + 1,
               !.pc = IF r.i + 1 > Len(r.hierarchy) THEN "done" ELSE "lookup" ]

\* Lines 121-124: a run calls _get_or_create_compliance_category with a path.
CallResolver(p) ==
    /\ race[p].pc = "idle"
    /\ \E hierarchy \in Hierarchies :
         race' = [ race EXCEPT ![p] = [ pc |-> "lookup", hierarchy |-> hierarchy, i |-> 1,
                                        parent_id |-> NoneId, folder_id |-> NoneId ] ]
    /\ UNCHANGED << folders, bystanders >>

\* Lines 125-127: repo.get_folder_id and the test of its result.
GetFolderId(p) ==
    /\ race[p].pc = "lookup"
    /\ LET r == race[p]
           folder_id == get_folder_id(folders, folder_seed, r.hierarchy[r.i], r.parent_id)
       IN  race' = [ race EXCEPT ![p] = IF TruthyId(folder_id) THEN Descend(r, folder_id)
                                        ELSE [ r EXCEPT !.pc = "insert",
                                                        !.folder_id = folder_id ] ]
    /\ UNCHANGED << folders, bystanders >>

\* A creation step that looks the node up again and creates it only when it
\* is still absent (a transactional get-or-create).
InsertFolder_transactional(p) ==
    /\ race[p].pc = "insert"
    /\ LET r == race[p]
           folder_id == get_folder_id(folders, folder_seed, r.hierarchy[r.i], r.parent_id)
       IN  IF TruthyId(folder_id)
           THEN /\ race' = [ race EXCEPT ![p] = Descend(r, folder_id) ]
                /\ UNCHANGED folders
           ELSE /\ folders' = insert_folder(folders, r.hierarchy[r.i], r.parent_id)
                /\ race' = [ race EXCEPT ![p] =
                                Descend(r, FolderId(folder_seed, Len(folders) + 1)) ]
    /\ UNCHANGED bystanders

\* Lines 128-129: repo.insert_folder.
InsertFolder(p) ==
    /\ race[p].pc = "insert"
    /\ LET r == race[p]
       IN  /\ folders' = insert_folder(folders, r.hierarchy[r.i], r.parent_id)
           /\ race' = [ race EXCEPT ![p] =
                           Descend(r, FolderId(folder_seed, Len(folders) + 1)) ]
    /\ UNCHANGED bystanders

NextRace ==
    \/ \E p \in Resolvers : CallResolver(p)
    \/ \E p \in Resolvers : GetFolderId(p)
    \/ \E p \in Resolvers : InsertFolder(p)

SpecRace == InitRace /\ [][NextRace]_vars

\* ------------------------------------------------------ scheduling layer
InitApi ==
    /\ regulator_name = NoneStr
    /\ site = << >>
    /\ folder_seed = 1
    /\ EmptyStore
    /\ NoRun
    /\ resolved = << >>
    /\ NoScheduling
    /\ io = NoIo
    /\ race = NoRace

pipeline == << resolved, io, race, site, regulator_name, folder_seed, faults, store, run >>

\* POST /schedule (lines 234-260): the regulator's schedule row becomes PENDING.
SchedulePipeline ==
    /\ \E r \in Range(Regulator_Pipelines) :
         /\ schedule[r] # "PENDING"
         /\ schedule' = [ schedule EXCEPT ![r] = "PENDING" ]
    /\ UNCHANGED << pipeline, pipeline_lock, pipeline_status, sched_pc, sched_job,
                    sched_runs, api >>

\* scheduler.py 74-118: a pipeline function builds and runs its pipeline
\* inside try/except Exception and only logs what it catches; run_raised says
\* whether the collector, the orchestrator or the job process raised.
pipeline_func(run_raised) == "returned"

\* UPDATE pipeline_status SET status=... WHERE regulator=? AND status='RUNNING'.
UpdateStatus(ps, regulator, status) ==
    [ i \in 1..Len(ps) |->
        IF ps[i].regulator = regulator /\ ps[i].status = "RUNNING"
        THEN [ ps[i] EXCEPT !.status = status ]
        ELSE ps[i] ]

\* scheduler_loop, lines 127-145: a due PENDING job is selected and the lock is
\* tried without blocking; when it is held the attempt is skipped. The select
\* is outside every try: when it raises, the exception leaves the loop and the
\* thread ends.
SchedulerPoll ==
    /\ sched_pc = "poll"
    /\ sched_runs < MaxScheduledRuns
    /\ \/ /\ sched_pc' = "dead"
          /\ UNCHANGED << pipeline_lock, sched_job >>
       \/ \E r \in Range(Regulator_Pipelines) :
            /\ schedule[r] = "PENDING"
            /\ IF pipeline_lock = "free"
               THEN /\ pipeline_lock' = "held"
                    /\ sched_job' = r
                    /\ sched_pc' = "mark_running"
               ELSE UNCHANGED << pipeline_lock, sched_job, sched_pc >>
    /\ UNCHANGED << pipeline, schedule, pipeline_status, sched_runs, api >>

\* The start of a scheduled job whose failing status update keeps the lock:
\* the try of line 146 without its finally.
SchedulerStartsPipeline_without_finally ==
    /\ sched_pc = "mark_running"
    /\ \E updFails \in BOOLEAN, insFails \in BOOLEAN :
         /\ updFails => ~insFails
         /\ schedule' = IF updFails THEN schedule
                        ELSE [ schedule EXCEPT ![sched_job] = "RUNNING" ]
         /\ IF updFails \/ insFails
            THEN /\ sched_pc' = "dead"
                 /\ UNCHANGED << pipeline_lock, pipeline_status, sched_runs >>
            ELSE /\ pipeline_status' = Append(pipeline_status,
                                              [ regulator |-> sched_job,
                                                status |-> "RUNNING" ])
                 /\ sched_runs' = sched_runs + 1
                 /\ sched_pc' = "pipeline"
                 /\ UNCHANGED pipeline_lock
    /\ UNCHANGED << pipeline, sched_job, api >>

\* Lines 147-156 and 81-100: the schedule row becomes RUNNING,
\* run_pipeline_async inserts a RUNNING status row and calls the pipeline
\* function. When the update or the insert raises, the finally of line 168
\* releases the lock and the exception ends the loop.
SchedulerStartsPipeline ==
    /\ sched_pc = "mark_running"
    /\ \E updFails \in BOOLEAN, insFails \in BOOLEAN :
         /\ updFails => ~insFails
         /\ schedule' = IF updFails THEN schedule
                        ELSE [ schedule EXCEPT ![sched_job] = "RUNNING" ]
         /\ IF updFails \/ insFails
            THEN /\ pipeline_lock' = "free"
                 /\ sched_pc' = "dead"
                 /\ UNCHANGED << pipeline_status, sched_runs >>
            ELSE /\ pipeline_status' = Append(pipeline_status,
                                              [ regulator |-> sched_job,
                                                status |-> "RUNNING" ])
                 /\ sched_runs' = sched_runs + 1
                 /\ sched_pc' = "pipeline"
                 /\ UNCHANGED pipeline_lock
    /\ UNCHANGED << pipeline, sched_job, api >>

\* scheduler.py 79-84: inside the pipeline function the run returns or raises.
SchedulerRunEnds ==
    /\ sched_pc = "pipeline"
    /\ sched_pc' \in { "run_returned", "run_raised" }
    /\ UNCHANGED << pipeline, pipeline_lock, schedule, pipeline_status, sched_job,
                    sched_runs, api >>

\* Lines 100-122: the pipeline function is left; run_pipeline_async sets the
\* regulator's RUNNING status rows to DONE, or to FAILED in its handler when the
\* function or the DONE update raised. An exception of the FAILED update leaves
\* run_pipeline_async, the finally of line 168 releases the lock and the loop
\* ends.
SchedulerPipelineReturns ==
    /\ sched_pc \in { "run_returned", "run_raised" }
    /\ \E doneFails \in BOOLEAN, failedFails \in BOOLEAN :
         LET raised == pipeline_func(sched_pc = "run_raised") = "raised"
             handler == raised \/ doneFails
         IN  /\ raised => ~doneFails
             /\ failedFails => handler
             /\ IF failedFails
                THEN /\ pipeline_lock' = "free"
                     /\ sched_pc' = "dead"
                     /\ UNCHANGED pipeline_status
                ELSE /\ pipeline_status' =
                            UpdateStatus(pipeline_status, sched_job,
                                         IF handler THEN "FAILED" ELSE "DONE")
                     /\ sched_pc' = "mark_done"
                     /\ UNCHANGED pipeline_lock
    /\ UNCHANGED << pipeline, schedule, sched_job, sched_runs, api >>

\* Lines 158-171: the schedule row becomes DONE, the lock is released, the
\* loop sleeps; when the update raises the lock is released and the loop ends.
SchedulerFinishesJob ==
    /\ sched_pc = "mark_done"
    /\ \E updFails \in BOOLEAN :
         /\ schedule' = IF updFails THEN schedule
                        ELSE [ schedule EXCEPT ![sched_job] = "DONE" ]
         /\ sched_pc' = IF updFails THEN "dead" ELSE "poll"
    /\ pipeline_lock' = "free"
    /\ UNCHANGED << pipeline, pipeline_status, sched_job, sched_runs, api >>

\* POST /trigger/{regulator} (lines 300-308): the request thread calls the
\* regulator's pipeline function.
TriggerRegulatorPipeline(t) ==
    /\ api[t].pc = "idle"
    /\ \E i \in 1..Len(Regulator_Pipelines) :
         api' = [ api EXCEPT ![t] = [ pc |-> "pipeline", endpoint |-> Regulator_Pipelines[i],
                                      i |-> i, errors |-> 0, status |-> NoneStr ] ]
    /\ UNCHANGED << pipeline, pipeline_lock, schedule, pipeline_status, sched_pc,
                    sched_job, sched_runs >>

\* POST /trigger/full (lines 278-286): the request thread calls the pipeline
\* functions in the order of REGULATOR_PIPELINES.
TriggerFullPipeline(t) ==
    /\ api[t].pc = "idle"
    /\ api' = [ api EXCEPT ![t] = [ pc |-> "pipeline", endpoint |-> "full", i |-> 1,
                                    errors |-> 0, status |-> NoneStr ] ]
    /\ UNCHANGED << pipeline, pipeline_lock, schedule, pipeline_status, sched_pc,
                    sched_job, sched_runs >>

\* scheduler.py 79-84: inside the pipeline function a request thread called,
\* the run returns or raises.
TriggeredRunEnds(t) ==
    /\ api[t].pc = "pipeline"
    /\ \E ended \in { "run_returned", "run_raised" } :
         api' = [ api EXCEPT ![t].pc = ended ]
    /\ UNCHANGED << pipeline, pipeline_lock, schedule, pipeline_status, sched_pc,
                    sched_job, sched_runs >>

\* The pipeline function a request thread called is left. /trigger/full notes
\* an error when it raised and goes on with the next regulator, and answers
\* "done" or "partial_failure" after the last (lines 287-298);
\* /trigger/{regulator} answers "done" (311-315) or raises HTTPException 500
\* (317-319).
TriggeredPipelineReturns(t) ==
    /\ api[t].pc \in { "run_returned", "run_raised" }
    /\ LET raised == pipeline_func(api[t].pc = "run_raised") = "raised"
           errors == api[t].errors + B(raised)
       IN  api' = [ api EXCEPT ![t] =
                      IF api[t].endpoint = "full"
                      THEN IF api[t].i < Len(Regulator_Pipelines)
                           THEN [ api[t] EXCEPT !.pc = "pipeline", !.i = api[t].i + 1,
                                                !.errors = errors ]
                           ELSE [ api[t] EXCEPT !.pc = "respond", !.errors = errors,
                                                !.status = IF errors = 0 THEN "done"
                                                           ELSE "partial_failure" ]
                      ELSE [ api[t] EXCEPT !.pc = "respond",
                                           !.status = IF raised THEN "500" ELSE "done" ] ]
    /\ UNCHANGED << pipeline, pipeline_lock, schedule, pipeline_status, sched_pc,
                    sched_job, sched_runs >>

\* The response is sent and the request thread is free again.
ResponseSent(t) ==
    /\ api[t].pc = "respond"
    /\ api' = [ api EXCEPT ![t] = NoRequest ]
    /\ UNCHANGED << pipeline, pipeline_lock, schedule, pipeline_status, sched_pc,
                    sched_job, sched_runs >>

NextApi ==
    \/ SchedulePipeline
    \/ SchedulerPoll
    \/ SchedulerStartsPipeline
    \/ SchedulerRunEnds
    \/ SchedulerPipelineReturns
    \/ SchedulerFinishesJob
    \/ \E t \in Requests : TriggerRegulatorPipeline(t)
    \/ \E t \in Requests : TriggerFullPipeline(t)
    \/ \E t \in Requests : TriggeredRunEnds(t)
    \/ \E t \in Requests : TriggeredPipelineReturns(t)
    \/ \E t \in Requests : ResponseSent(t)

SpecApi == InitApi /\ [][NextApi]_vars

\* The scheduler_loop thread and POST /schedule alone.
NextScheduler ==
    \/ SchedulePipeline
    \/ SchedulerPoll
    \/ SchedulerStartsPipeline
    \/ SchedulerRunEnds
    \/ SchedulerPipelineReturns
    \/ SchedulerFinishesJob

SpecScheduler == InitApi /\ [][NextScheduler]_vars

\* The regulator pipelines executing now: the one the scheduler_loop called
\* and those the request threads called.
InPipeline == { "pipeline", "run_returned", "run_raised" }

RunningPipelines ==
    (IF sched_pc \in InPipeline THEN { << 0, sched_job >> } ELSE { })
    \cup { << t, Regulator_Pipelines[api[t].i] >> : t \in { u \in Requests :
                                                           api[u].pc \in InPipeline } }

\* ======================================================== claims, pipeline

\* The run is inside _process_single_doc for the descriptor docs[new_docs[k]].
DocSteps == { "category", "rr_insert", "sama_download", "sama_convert", "sama_insert",
              "sama_analyze", "sama_store", "download", "insert", "returned" }
InDoc == pc \in DocSteps

\* The filter of the current run has just returned.
Filtered == pc \in { "loop", "finished" } /\ k = 0 /\ docs # << >>

SameKey(r, d) ==
    /\ r.title = d.title
    /\ r.published_date = d.published_date
    /\ r.doc_path = d.doc_path

\* A row inserted from descriptor d is stored.
Stored(rs, d) == \E i \in 1..Len(rs) : SameKey(rs[i], d)

Made(op) == { i \in 1..Len(calls) : calls[i].op = op }
MadeWith(op, outs) == { i \in 1..Len(calls) : calls[i].op = op /\ calls[i].out \in outs }

RowsInserted == Len(rows) - mark.rows
NewLogs == { logs[i] : i \in (mark.logs + 1)..Len(logs) }

\* C1: the store never holds two regulation rows with the same
\* (title, published_date, doc_path), also when a key occurs twice in one batch.
C1_NoDuplicateRows ==
    \A i, j \in 1..Len(rows) : i # j => ~SameKey(rows[i], rows[j])

\* C2: once every descriptor the filter checks has a stored row, a filter pass
\* over the list returns an empty new list: completed descriptors are existing.
C2_IdempotentRerun ==
    (Filtered /\ \A i \in Checked(docs) : Stored(rows, docs[i])) => new_docs = << >>

\* C3: when the SAMA conversion fails (the call raises or returns a non-empty
\* HTML shorter than 50 characters) and the insertion itself succeeds, the row
\* is inserted, the Analysis Service is not invoked and no analysis is stored.
C3_ConversionFailureTolerance ==
    ( /\ pc = "returned"
      /\ branch = "sama"
      /\ MadeWith("convert", { "raise", "short" }) # { }
      /\ MadeWith("insert", { "ok" }) # { } )
    => /\ RowsInserted = 1
       /\ Made("analyze") = { }
       /\ Cardinality(analyses) = mark.analyses

\* C4: processing a descriptor whose category is "Regulatory Return" never
\* calls the Retrieval Service or the Conversion Service.
C4_RegulatoryReturnShortCircuit ==
    (InDoc /\ doc.category = "Regulatory Return")
    => Made("download") = { } /\ Made("convert") = { }

\* C5: the filter places every input position in exactly one of new, existing
\* and skipped (the positions in neither list); no position is in both lists
\* or twice in one list, and the three counts add up to the input length.
Skipped == { i \in 1..Len(docs) : i \notin Range(new_docs) \cup Range(existing_docs) }

C5_PartitionCompleteness ==
    Filtered =>
        /\ Range(new_docs) \cup Range(existing_docs) \subseteq 1..Len(docs)
        /\ Range(new_docs) \cap Range(existing_docs) = { }
        /\ Cardinality(Range(new_docs)) = Len(new_docs)
        /\ Cardinality(Range(existing_docs)) = Len(existing_docs)
        /\ Skipped = { i \in 1..Len(docs) : FilterRoute(docs[i]) = "skip" }
        /\ Len(new_docs) + Len(existing_docs) + Cardinality(Skipped) = Len(docs)

C5_Witness ==
    /\ Filtered
    /\ Skipped # { }
    /\ existing_docs # << >>

\* C7: no exception crosses a descriptor boundary: only a failing
\* fetch_documents makes run_for_regulator raise, and a run that finishes has
\* processed every new descriptor, whatever failed on the way.
C7_NoExceptionCrossesDescriptor ==
    /\ pc = "raised" => k = 0 /\ docs = << >>
    /\ pc = "finished" => processed = new_docs

C7_Witness ==
    /\ pc = "finished"
    /\ Len(processed) = MaxBatch
    /\ faults = MaxFaults
    /\ \E i \in 1..Len(logs) : logs[i].status = "ERROR"

\* C8: exactly one branch executes per descriptor, first match winning:
\* regulatory returns on the category, else SAMA on the regulator, else the
\* normal flow; every step and call belongs to that branch and
\* insert_regulation is called at most once.
BranchSteps(b) ==
    CASE b = "regulatory_returns" -> { "rr_insert", "returned" }
      [] b = "sama" -> { "sama_download", "sama_convert", "sama_insert", "sama_analyze",
                         "sama_store", "returned" }
      [] b = "normal" -> { "download", "insert", "returned" }
      [] OTHER -> { "category" }

BranchCalls(b) ==
    CASE b = "regulatory_returns" -> { "insert" }
      [] b = "sama" -> { "download", "convert", "insert", "analyze", "store" }
      [] b = "normal" -> { "download", "insert" }
      [] OTHER -> { }

C8_ExactlyOneBranch ==
    InDoc =>
        /\ pc \in BranchSteps(branch)
        /\ pc # "category" =>
              /\ Lower(doc.category) = "regulatory returns" => branch = "regulatory_returns"
              /\ Lower(doc.category) # "regulatory returns" /\ regulator_name = "SAMA"
                    => branch = "sama"
              /\ Lower(doc.category) # "regulatory returns" /\ regulator_name # "SAMA"
                    => branch = "normal"
        /\ \A i \in 1..Len(calls) :
              calls[i].op \in BranchCalls(branch) \cup
                              { "category", "log_error", "log_success", "log_started" }
        /\ Cardinality(Made("insert")) <= 1

C8_Witness ==
    /\ pc = "returned"
    /\ regulator_name = "SAMA"
    /\ branch = "regulatory_returns"
    /\ Made("insert") # { }

\* C9 as stated: when processing of a descriptor returns, either exactly one
\* row was inserted for it and its id holds that row's id, or no row was
\* inserted, its id is null and an ERROR entry was written to the log.
InsertedWithId ==
    /\ RowsInserted = 1
    /\ doc.id = rows[Len(rows)].id
    /\ SameKey(rows[Len(rows)], doc)

C9_InsertedOrLoggedFailure ==
    pc = "returned" =>
        \/ InsertedWithId
        \/ /\ RowsInserted = 0
           /\ doc.id = NoneId
           /\ \E e \in NewLogs : e.status = "ERROR"

\* C9 amended: ... or no row was inserted, its id is null and an ERROR log
\* write was made for it, whose entry is in the log unless that write failed.
C9_InsertedOrFailureLogAttempted ==
    pc = "returned" =>
        \/ InsertedWithId
        \/ /\ RowsInserted = 0
           /\ doc.id = NoneId
           /\ Made("log_error") # { }
           /\ \/ \E e \in NewLogs : e.status = "ERROR"
              \/ MadeWith("log_error", { "lost" }) # { }

C9_Witness ==
    /\ pc = "returned"
    /\ RowsInserted = 0
    /\ MadeWith("insert", { "raise" }) # { }
    /\ \E e \in NewLogs : e.status = "ERROR" /\ e.step = "insert"

\* C11: a descriptor whose retrieval failed in one run is classified new by
\* the filter of the next run (and so is processed again from the start), in
\* the normal flow and in the SAMA branch alike.
C11_ReattemptAfterFailedRetrieval ==
    Filtered => \A i \in retrieval_failed : i \in Range(new_docs)

\* Log writes of the current descriptor that the repository did not store.
LostLogCalls ==
    { i \in 1..Len(calls) : /\ calls[i].op \in { "log_error", "log_success", "log_started" }
                            /\ calls[i].out = "lost" }

\* C12: no descriptor disappears without an audit entry: when log writes
\* succeed, a processed descriptor has left a Processing Log entry when its
\* processing returns, and at the end of a run the log holds an entry for every
\* descriptor the filter skipped and for every descriptor handed to processing.
C12_AuditEntry ==
    /\ (pc = "returned" /\ LostLogCalls = { }) => NewLogs # { }
    /\ (pc = "finished" /\ runs = 1 /\ faults = 0)
          => Len(logs) >= Cardinality(Skipped) + Len(new_docs)

\* The step name under which a failure of each collaborator call is logged
\* when the entry names the call that failed.
StepOf(op) ==
    CASE op = "download" -> "download"
      [] op = "convert" -> "pdf_conversion"
      [] op = "insert" -> "insert"
      [] op \in { "analyze", "store" } -> "llm_analysis"
      [] OTHER -> "none"

\* The calls of the current descriptor that failed: raised, or returned
\* HTML that the sanity check rejects.
FailedCalls ==
    { i \in 1..Len(calls) : /\ StepOf(calls[i].op) # "none"
                            /\ calls[i].out \in { "raise", "empty", "short" } }

\* C13: every ERROR entry written for a descriptor names the step that
\* failed (download, pdf_conversion, insert, llm_analysis), and every failure
\* whose log write succeeded has an ERROR entry with its own step name.
C13_ErrorNamesFailedStep ==
    InDoc =>
        /\ \A e \in NewLogs :
              e.status = "ERROR" => \E i \in FailedCalls : StepOf(calls[i].op) = e.step
        /\ \A i \in FailedCalls :
              (i < Len(calls) /\ calls[i + 1] = Call("log_error", "written"))
              => \E e \in NewLogs : e.status = "ERROR" /\ e.step = StepOf(calls[i].op)

\* C14: in the SAMA branch _insert_regulation is attempted exactly once
\* whatever the outcome of the download and of the conversion: no attempt
\* before the insert step, exactly one after it.
C14_SamaInsertAttemptedOnce ==
    (InDoc /\ branch = "sama") =>
        /\ pc \in { "sama_download", "sama_convert", "sama_insert" } => Made("insert") = { }
        /\ pc \in { "sama_analyze", "sama_store", "returned" }
              => Cardinality(Made("insert")) = 1

C14_Witness ==
    /\ pc = "returned"
    /\ branch = "sama"
    /\ MadeWith("download", { "raise" }) # { }
    /\ Cardinality(Made("insert")) = 1

\* The collaborator calls of the current descriptor without the log calls.
NonLogCalls ==
    SelectSeq(calls, LAMBDA c : c.op \notin { "log_error", "log_success", "log_started" })

\* The step that follows the last collaborator call, whatever became of the
\* log writes made so far.
StepsAfterLastCall ==
    LET n == Len(NonLogCalls)
        c == NonLogCalls[n]
    IN  IF n = 0 \/ c.op = "category"
        THEN { "category", FirstStep(doc, regulator_name) }
        ELSE CASE c.op = "download" /\ branch = "normal" ->
                      { IF c.out = "ok" THEN "insert" ELSE "returned" }
               [] c.op = "download" /\ branch = "sama" ->
                      { IF c.out = "ok" THEN "sama_convert" ELSE "sama_insert" }
               [] c.op = "convert" -> { "sama_insert" }
               [] c.op = "insert" ->
                      { IF branch = "sama" /\ c.out = "ok" /\ TruthyLen(html_content)
                        THEN "sama_analyze" ELSE "returned" }
               [] c.op = "analyze" -> { IF c.out = "ok" THEN "sama_store" ELSE "returned" }
               [] OTHER -> { "returned" }

\* C15: logging never propagates: a failing log write leaves the run inside
\* the descriptor's processing, the step that follows is the one that follows
\* when the write succeeds, every later log write is still made, and the loop
\* goes on with the following descriptors.
C15_LoggingNeverPropagates ==
    /\ LostLogCalls # { } => InDoc
    /\ InDoc =>
          /\ pc \in StepsAfterLastCall
          /\ Len(logs) - mark.logs =
                Cardinality({ i \in 1..Len(calls) :
                                /\ calls[i].op \in { "log_error", "log_success", "log_started" }
                                /\ calls[i].out = "written" })
    /\ pc = "loop" => Len(processed) = k

C15_Witness ==
    /\ pc = "returned"
    /\ \E i \in LostLogCalls : \E j \in (i + 1)..Len(calls) : calls[j].out = "written"

InsertReturned == InDoc /\ MadeWith("insert", { "ok" }) # { }

\* A descriptor's id is null before its row has been inserted successfully and
\* is then the id that insertion returned.
C17_IdNullUntilInserted ==
    \A i \in 1..Len(docs) :
        /\ (i \notin Range(processed) /\ ~(InsertReturned /\ i = cur)) => docs[i].id = NoneId
        /\ (InsertReturned /\ i = cur) =>
              /\ docs[i].id = rows[mark.rows + 1].id
              /\ SameKey(rows[mark.rows + 1], docs[i])
        /\ docs[i].id # NoneId =>
              \E j \in 1..Len(rows) : rows[j].id = docs[i].id /\ SameKey(rows[j], docs[i])

\* A step leaves an assigned id as it is.
C17_IdAssignedOnce ==
    \A i \in 1..Len(docs) :
        (docs[i].id # NoneId /\ Len(docs') = Len(docs)) => docs'[i].id = docs[i].id

\* C17: a descriptor's id is null in every state before its row has been
\* inserted successfully, is assigned once, to the id that insertion returned,
\* and is never reassigned within the run.
C17_IdLifecycle == [] C17_IdNullUntilInserted /\ [][C17_IdAssignedOnce]_vars

C17_Witness ==
    /\ pc = "category"
    /\ k = 2
    /\ docs[new_docs[1]].id # NoneId
    /\ doc.id = NoneId

\* C18: within one run the new descriptors are processed one after another
\* in the order of the collector's list: new_docs keeps the input order, the
\* processed descriptors are a prefix of new_docs, and processing of descriptor
\* k starts only after processing of the k - 1 before it has returned.
C18_ProcessedInCollectorOrder ==
    /\ \A a, b \in 1..Len(new_docs) : a < b => new_docs[a] < new_docs[b]
    /\ Len(processed) <= Len(new_docs)
    /\ processed = SubSeq(new_docs, 1, Len(processed))
    /\ InDoc => Len(processed) = k - 1
    /\ pc \in { "loop", "finished" } => Len(processed) = k

C18_Witness ==
    /\ InDoc
    /\ k = 2
    /\ processed = << new_docs[1] >>
    /\ new_docs[1] < new_docs[2]

\* A step in which fetch_documents raises.
FetchFails ==
    /\ pc = "idle"
    /\ runs' = runs + 1
    /\ faults' = faults + 1
    /\ docs' = << >>

\* When fetch_documents raises, the failure leaves run_for_regulator and the
\* step writes nothing; the caller then takes the exception.
C19_FetchFailureStep ==
    /\ FetchFails =>
          /\ pc' = "raised"
          /\ UNCHANGED << store, retrieval_failed >>
          /\ new_docs' = << >> /\ existing_docs' = << >> /\ calls' = << >>
    /\ pc = "raised" => (pc' = "idle" /\ UNCHANGED store)

\* A run whose fetch failed has filtered and processed nothing.
C19_NothingDone ==
    pc = "raised" =>
        /\ docs = << >> /\ new_docs = << >> /\ existing_docs = << >>
        /\ k = 0 /\ calls = << >> /\ processed = << >>

\* C19: if fetch_documents fails, run_for_regulator propagates the failure
\* to its caller and the run makes no existence check, category creation,
\* retrieval, insertion or Processing Log write.
C19_FetchFailurePropagates == [] C19_NothingDone /\ [][C19_FetchFailureStep]_vars

C19_Witness ==
    /\ pc = "raised"
    /\ runs = 2
    /\ rows # << >>
    /\ logs # << >>

\* The key the routing policy names for descriptor d: the date is part of it
\* when the descriptor has one; << >> stands for "no check".
PolicyKey(d) ==
    IF d.published_date \notin { NoneStr, "" }
    THEN << d.title, d.published_date, d.doc_path >>
    ELSE IF \/ Lower(d.category) = "regulatory returns"
            \/ Upper(d.source_system) = Upper("dpc-circular")
         THEN << d.title, NoneStr, d.doc_path >>
         ELSE << >>

\* The existence check on the policy's key returned true: the repository
\* answered, and a row matches.
CheckReturnsTrue(i) ==
    LET key == PolicyKey(docs[i])
    IN  /\ key # << >>
        /\ i \notin check_raised
        /\ document_exists(rows, key[1], key[2], key[3])

\* C21: filter routing policy. A descriptor with a non-empty published_date is
\* checked on (title, published_date, doc_path); otherwise one whose category is
\* "regulatory returns" or whose source_system is "dpc-circular", ignoring
\* case, is checked on (title, null, doc_path); every other descriptor is in
\* neither list. A checked descriptor is in existing iff the check returned
\* true, and in new otherwise.
C21_FilterRoutingPolicy ==
    Filtered =>
        \A i \in 1..Len(docs) :
            /\ i \in Range(existing_docs) <=> CheckReturnsTrue(i)
            /\ i \in Range(new_docs) <=>
                   (PolicyKey(docs[i]) # << >> /\ ~CheckReturnsTrue(i))

\* A filter pass that skipped one descriptor and found an undated one stored.
C21_Witness ==
    /\ Filtered
    /\ \E i \in 1..Len(docs) : PolicyKey(docs[i]) = << >>
    /\ \E j \in Range(existing_docs) : docs[j].published_date = NoneStr

\* C22: dedup key equivalence. In one filter pass, two descriptors with the same
\* (title, published_date, doc_path) are classified alike whatever their
\* extra_meta hold (org_pdf_link, document_html), and when a row with that key
\* is stored both are existing.
C22_DedupKeyEquivalence ==
    Filtered =>
        \A i, j \in 1..Len(docs) :
            SameKey(docs[i], docs[j]) =>
                /\ i \in Range(new_docs) <=> j \in Range(new_docs)
                /\ i \in Range(existing_docs) <=> j \in Range(existing_docs)
                /\ Stored(rows, docs[i]) => j \in Range(existing_docs)

\* Category resolution raised for the current descriptor.
CategoryFailed == InDoc /\ MadeWith("category", { "raise" }) # { }

\* C23: a repository failure during category resolution is non-fatal: the
\* descriptor's compliancecategory_id is null, and the branch chosen, the step
\* taken after every collaborator call and the row inserted are those of the
\* same descriptor without doc_path.
C23_CategoryFailureNonFatal ==
    CategoryFailed =>
        LET without_path == [ doc EXCEPT !.doc_path = NoPath ] IN
        /\ doc.compliancecategory_id = NoneId
        /\ branch = BranchOf(without_path, regulator_name)
        /\ pc \in BranchSteps(branch) \ { "category" }
        /\ Len(calls) = 1 => pc = FirstStep(without_path, regulator_name)
        /\ pc \in StepsAfterLastCall
        /\ \A i \in (mark.rows + 1)..Len(rows) : rows[i].compliancecategory_id = NoneId

\* A descriptor whose category resolution raised has been inserted, with
\* category nodes in the store.
C23_Witness ==
    /\ pc = "returned"
    /\ CategoryFailed
    /\ Len(folders) > 0
    /\ RowsInserted = 1

\* The Analysis Service, or storing its result, failed for the current descriptor.
AnalysisFailed ==
    /\ InDoc
    /\ branch = "sama"
    /\ MadeWith("analyze", { "raise" }) \cup MadeWith("store", { "raise" }) # { }

C6_CategoryIdempotence ==
    /\ \A i, j \in 1..Len(folders) :
          i # j => ~(folders[i].title = folders[j].title
                     /\ folders[i].parent_id = folders[j].parent_id)
    /\ \A i, j \in 1..Len(resolved) :
          (resolved[i].path = resolved[j].path /\ ~resolved[i].raised
             /\ ~resolved[j].raised)
          => resolved[i].id = resolved[j].id

\* C26: in the SAMA branch the descriptor handed to _insert_regulation carries
\* the document_url the collector produced, also after a download that raised,
\* and so does the row inserted from it.
C26_InsertCarriesCollectorUrl ==
    (InDoc /\ branch = "sama") =>
        /\ pc = "sama_insert" => doc.document_url = site[cur].document_url
        /\ \A i \in (mark.rows + 1)..Len(rows) :
              rows[i].document_url = site[cur].document_url

\* C27: a descriptor whose existence check raised is classified new, never
\* existing or skipped; it is handed to processing in that run like any new
\* descriptor, its insertion is attempted (unless the normal flow's download
\* failed), and an insertion that returns adds a row although a row with the
\* same key may already be stored.
C27_RaisingCheckMeansNew ==
    /\ \A i \in check_raised :
          /\ i \in Range(new_docs)
          /\ i \notin Range(existing_docs)
          /\ PolicyKey(site[i]) # << >>
    /\ pc = "finished" => check_raised \subseteq Range(processed)
    /\ (pc = "returned" /\ cur \in check_raised) =>
          /\ \/ Cardinality(Made("insert")) = 1
             \/ branch = "normal" /\ MadeWith("download", { "raise" }) # { }
          /\ MadeWith("insert", { "ok" }) # { } =>
                /\ RowsInserted = 1
                /\ SameKey(rows[Len(rows)], doc)

\* A descriptor whose key was stored and whose existence check raised has been
\* inserted a second time.
C27_Witness ==
    /\ pc = "returned"
    /\ cur \in check_raised
    /\ \E i \in 1..mark.rows : SameKey(rows[i], doc)
    /\ RowsInserted = 1

LogEntry(regulation_id, step, status) ==
    [ regulation_id |-> regulation_id, step |-> step, status |-> status ]

\* C29: audit ordering in the SAMA branch. No llm_analysis entry has a null
\* regulation id; and when the log writes of a descriptor succeed, each of its
\* llm_analysis SUCCESS or ERROR entries comes after an llm_analysis STARTED
\* entry for the same regulation id, which comes after the insert SUCCESS entry
\* for that id.
C29_AuditOrdering ==
    /\ \A a \in 1..Len(logs) :
          logs[a].step = "llm_analysis" => logs[a].regulation_id # NoneId
    /\ (InDoc /\ LostLogCalls = { }) =>
          \A a \in (mark.logs + 1)..Len(logs) :
              (logs[a].step = "llm_analysis" /\ logs[a].status \in { "SUCCESS", "ERROR" }) =>
                  \E b \in (mark.logs + 1)..(a - 1) :
                      /\ logs[b] = LogEntry(logs[a].regulation_id, "llm_analysis", "STARTED")
                      /\ \E c \in (mark.logs + 1)..(b - 1) :
                            logs[c] = LogEntry(logs[a].regulation_id, "insert", "SUCCESS")

\* An analysis that failed after its STARTED entry, with every log write of the
\* descriptor stored.
C29_Witness ==
    /\ pc = "returned"
    /\ LostLogCalls = { }
    /\ logs # << >>
    /\ logs[Len(logs)].step = "llm_analysis"
    /\ logs[Len(logs)].status = "ERROR"
    /\ Len(logs) > mark.logs

\* ================================== claims, concurrent category resolution
\* Two category nodes with the same title under the same parent.
DuplicateSiblings ==
    \E i, j \in 1..Len(folders) : i # j /\ folders[i] = folders[j]

\* A run's creation step is not preceded, in the same step, by a second lookup:
\* it adds a node whatever the other run has created since this run's lookup.
InsertFolderCreates ==
    \A p \in Resolvers :
        (race[p].pc = "insert" /\ race'[p] # race[p]) =>
            /\ Len(folders') = Len(folders) + 1
            /\ folders'[Len(folders')] = [ title |-> race[p].hierarchy[race[p].i],
                                          parent_id |-> race[p].parent_id ]

\* C25: concurrent category creation race. Lookup and creation are separate
\* repository calls, and a run that found no node creates one even when another
\* run resolving the same doc_path has created that node in between; the state
\* with two sibling nodes of one (title, parent_id) is reachable (C25_Witness).
C25_CreationIgnoresOtherRun == [][InsertFolderCreates]_vars

\* Both runs have resolved the same doc_path and the store holds two sibling
\* nodes with the same (title, parent_id).
C25_Witness ==
    /\ race[1].pc = "done"
    /\ race[2].pc = "done"
    /\ race[1].hierarchy = race[2].hierarchy
    /\ DuplicateSiblings

\* ================================= claims, Retrieval and Conversion calls
\* C20: every Retrieval call and every Conversion call terminates: once
\* started it returns a result or raises a failure to the branch, whatever the
\* remote service does.
C20_CallsTerminate == IoRunning ~> IoEnded

\* ================================================ claims, scheduling layer
\* run_pipeline_async is left after a run that raised inside the pipeline
\* function: the regulator's RUNNING status rows are FAILED.
ScheduledFailureIsFailed ==
    (sched_pc = "run_raised" /\ sched_pc' = "mark_done") =>
        \A i \in 1..Len(pipeline_status) :
            (pipeline_status[i].regulator = sched_job /\ pipeline_status[i].status = "RUNNING")
                => pipeline_status'[i].status = "FAILED"

\* POST /trigger/{regulator} responds after a run that raised inside the
\* pipeline function: the status is not "done".
TriggeredFailureIsNotDone ==
    \A t \in Requests :
        (api[t].pc = "run_raised" /\ api[t].endpoint # "full" /\ api'[t].pc = "respond")
            => api'[t].status # "done"

\* C28: a pipeline run that fails at run level (the collector or the
\* orchestrator raises) is reported as failed: run_pipeline_async sets the
\* pipeline_status row to FAILED, not DONE, and POST /trigger/{regulator} does
\* not answer with status "done".
C28_RunFailureReported ==
    [][ScheduledFailureIsFailed /\ TriggeredFailureIsNotDone]_vars

\* C10: at most one regulator pipeline is executing at any time, across the
\* scheduler loop and the trigger endpoints.
C10_MutualExclusion == Cardinality(RunningPipelines) <= 1

\* C30: scheduler lock release. The pipeline lock is held only between its
\* acquisition and the end of the try block of lines 146-169: it is free
\* whenever the scheduler loop sleeps or selects a job, so an attempt can acquire
\* it, and it is free after an exception of a schedule-status update or of
\* run_pipeline_async has ended the loop.
C30_LockReleasedOnEveryPath ==
    /\ sched_pc \in { "poll", "dead" } => pipeline_lock = "free"
    /\ pipeline_lock = "held" => sched_job \in Range(Regulator_Pipelines)

\* An exception raised after the lock was acquired has ended the loop, and
\* the lock is free.
C30_Witness ==
    /\ sched_pc = "dead"
    /\ pipeline_lock = "free"
    /\ \E r \in Range(Regulator_Pipelines) : schedule[r] = "RUNNING"

====
